---- MODULE Spec2Model ----
(***************************************************************************)
(* SnapNote document pipeline (src/processor.py): canonical corner         *)
(* ordering, perspective rectification, quadrilateral location over three  *)
(* Canny passes, tonal enhancement and the process_image driver.           *)
(*                                                                         *)
(* Points are <<x, y>> pairs of integers.  Areas are kept doubled          *)
(* (area2 = 2 * area) so that the half-integer areas of the shoelace       *)
(* formula stay integral.  The 0.2 factor and the scale 1000.0/h of        *)
(* find_document_contour are kept as exact fractions.                      *)
(***************************************************************************)
EXTENDS Integers, Sequences, FiniteSets, TLC

VARIABLES
    \* ---- process_image / find_document_contour ----
    image,            \* the caller's raster: [w, h, ch, ops]
    use_perspective,  \* BOOLEAN argument of process_image
    enhance_mode,     \* "Original" | "Grayscale" | "Scan" | "High Contrast"
    pc,               \* position inside process_image
    passLog,          \* the (canny_low, canny_high) pairs run so far
    rawCnts,          \* cv2.findContours output of the pass just run
    cnts,             \* the sorted, truncated list the pass inspected
    contour,          \* find_document_contour result: 4 points, or <<>> for None
    located,          \* TRUE once find_document_contour has returned
    rectified,        \* four_point_transform result of the pipeline
    output,           \* the working raster of process_image
    error,            \* "none" or the exception that left process_image
    \* ---- order_points / four_point_transform on their own ----
    g_pts,            \* the 4 points handed in
    g_rect,           \* order_points(g_pts), or <<>> before the call
    g_warp,           \* four_point_transform result record
    g_pc,             \* "input" | "ordered" | "warped"
    \* ---- increase_contrast on one channel value ----
    pixHist           \* <<v, HC(v), HC(HC(v)), ...>>

vars == <<image, use_perspective, enhance_mode, pc, passLog, rawCnts, cnts,
          contour, located, rectified, output, error,
          g_pts, g_rect, g_warp, g_pc, pixHist>>

pipeVars == <<image, use_perspective, enhance_mode, pc, passLog, rawCnts, cnts,
              contour, located, rectified, output, error>>
geomVars == <<g_pts, g_rect, g_warp, g_pc>>

(***************************************************************************)
(* Bounds of the model.                                                    *)
(***************************************************************************)
GridMax  == 2    \* point coordinates of the stand-alone geometry run: 0..GridMax
MaxApply == 2    \* how many times High Contrast is re-applied to one value
MaxTail  == 2    \* contours of one pass besides the filler block
FillN    == 10   \* size of the block of large non-quadrilateral contours

(***************************************************************************)
(* Program constants.                                                      *)
(***************************************************************************)
TopN        == 10     \* sorted(...)[:10]
MaxDim      == 1000   \* if h > 1000: scale = 1000.0 / h
MinAreaDen  == 5      \* min_area = image_area * 0.2  (0.2 = 1/5)
PixelMax    == 255    \* 8-bit output of cv2.convertScaleAbs
AlphaX10    == 20     \* alpha=2.0, in tenths
ContrastBeta == -50   \* beta=-50

(***************************************************************************)
(* Arithmetic helpers.                                                     *)
(***************************************************************************)
Abs(n) == IF n < 0 THEN -n ELSE n

Max2(a, b) == IF a >= b THEN a ELSE b

RECURSIVE GCD(_, _)
GCD(a, b) == IF b = 0 THEN a ELSE GCD(b, a % b)

RECURSIVE SqrtSearch(_, _, _)
SqrtSearch(n, lo, hi) ==
    IF lo >= hi THEN lo
    ELSE LET mid == (lo + hi + 1) \div 2
         IN  IF mid * mid <= n THEN SqrtSearch(n, mid, hi)
                               ELSE SqrtSearch(n, lo, mid - 1)

\* int(np.sqrt(n)) for a non-negative integer n: the floor of the root,
\* searched below hi, any number with hi * hi >= n.
ISqrt(n, hi) == SqrtSearch(n, 0, hi)

(***************************************************************************)
(* order_points                                                            *)
(***************************************************************************)
\* np.argmin: the first index holding the minimum.
ArgMin(f) ==
    CHOOSE i \in DOMAIN f :
        /\ \A j \in DOMAIN f : f[i] <= f[j]
        /\ \A j \in DOMAIN f : j < i => f[j] > f[i]

\* np.argmax: the first index holding the maximum.
ArgMax(f) ==
    CHOOSE i \in DOMAIN f :
        /\ \A j \in DOMAIN f : f[i] >= f[j]
        /\ \A j \in DOMAIN f : j < i => f[j] < f[i]

\* pts.sum(axis=1)
PtSum(pts) == [i \in DOMAIN pts |-> pts[i][1] + pts[i][2]]

\* np.diff(pts, axis=1): second column minus first, y - x.
PtDiff(pts) == [i \in DOMAIN pts |-> pts[i][2] - pts[i][1]]

\* A slip that takes the first input point as top-left instead of the argmin.
order_points_first(pts) ==
    << pts[1],
       pts[ArgMin(PtDiff(pts))],
       pts[ArgMax(PtSum(pts))],
       pts[ArgMax(PtDiff(pts))] >>

\* A slip that takes the difference as x - y.
order_points_xy(pts) ==
    LET d == [i \in DOMAIN pts |-> pts[i][1] - pts[i][2]]
    IN  << pts[ArgMin(PtSum(pts))],
           pts[ArgMin(d)],
           pts[ArgMax(PtSum(pts))],
           pts[ArgMax(d)] >>

\* rect[0..3] = top-left, top-right, bottom-right, bottom-left.
order_points(pts) ==
    << pts[ArgMin(PtSum(pts))],
       pts[ArgMin(PtDiff(pts))],
       pts[ArgMax(PtSum(pts))],
       pts[ArgMax(PtDiff(pts))] >>

(***************************************************************************)
(* four_point_transform                                                    *)
(***************************************************************************)
\* int(np.sqrt((a.x - b.x)**2 + (a.y - b.y)**2))
EdgeLen(a, b) ==
    ISqrt((a[1] - b[1]) * (a[1] - b[1]) + (a[2] - b[2]) * (a[2] - b[2]),
          Abs(a[1] - b[1]) + Abs(a[2] - b[2]))

\* cv2.warpPerspective(image, M, dsize): the destination is created with
\* dsize, or with the source's size when dsize is empty (width or height
\* <= 0).  No error is raised for an empty dsize.
WarpSize(img, w, h) ==
    IF w <= 0 \/ h <= 0 THEN [w |-> img.w, h |-> img.h]
                        ELSE [w |-> w, h |-> h]

\* The result of four_point_transform: the function has no early return and
\* raises nothing itself, so the status is always "returned".
four_point_transform(img, pts) ==
    LET rect == order_points(pts)
        tl == rect[1]
        tr == rect[2]
        br == rect[3]
        bl == rect[4]
        maxWidth  == Max2(EdgeLen(br, bl), EdgeLen(tr, tl))
        maxHeight == Max2(EdgeLen(tr, br), EdgeLen(tl, bl))
        size == WarpSize(img, maxWidth, maxHeight)
    IN  [ status    |-> "returned",
          rect      |-> rect,
          maxWidth  |-> maxWidth,
          maxHeight |-> maxHeight,
          warped    |-> [w |-> size.w, h |-> size.h, ch |-> img.ch,
                         ops |-> Append(img.ops, "warp")] ]

NoWarp == [status |-> "none", rect |-> <<>>, maxWidth |-> -1, maxHeight |-> -1,
           warped |-> [w |-> 0, h |-> 0, ch |-> 0, ops |-> <<>>]]

(***************************************************************************)
(* increase_contrast                                                       *)
(***************************************************************************)
\* cvRound of n/d for n >= 0, d > 0: round half to even.
RoundDiv(n, d) ==
    LET q == n \div d
        r == n % d
    IN  IF 2 * r > d THEN q + 1
        ELSE IF 2 * r < d THEN q
        ELSE IF q % 2 = 0 THEN q ELSE q + 1

\* A slip that lets the 8-bit result wrap instead of saturating.
SaturateWrap(n) == n % (PixelMax + 1)

\* saturate_cast<uchar>
Saturate(n) == IF n < 0 THEN 0 ELSE IF n > PixelMax THEN PixelMax ELSE n

\* cv2.convertScaleAbs on one channel value: saturate(|v*alpha + beta|).
increase_contrast(v, alphaX10, beta) ==
    Saturate(RoundDiv(Abs(v * alphaX10 + beta * 10), 10))

\* process_image's "High Contrast" branch.
HighContrast(v) == increase_contrast(v, AlphaX10, ContrastBeta)

(***************************************************************************)
(* Tonal enhancer: the dispatch at the end of process_image                *)
(***************************************************************************)
\* cv2.cvtColor(raster, cv2.COLOR_BGR2GRAY): needs a 3-channel source and
\* raises cv2.error on a single-channel one.
cvtColorBGR2GRAY(r) ==
    IF r.ch = 3
    THEN [ok |-> TRUE,  raster |-> [r EXCEPT !.ch = 1, !.ops = Append(@, "gray")]]
    ELSE [ok |-> FALSE, raster |-> r]

\* CLAHE, bilateral filter and adaptive threshold keep the single channel.
apply_adaptive_threshold(r) ==
    LET g == cvtColorBGR2GRAY(r)
    IN  IF g.ok
        THEN [ok |-> TRUE,
              raster |-> [g.raster EXCEPT
                            !.ops = @ \o <<"clahe", "bilateral", "threshold">>]]
        ELSE g

\* cv2.convertScaleAbs works per channel and keeps the channel count.
ContrastRaster(r) ==
    [ok |-> TRUE, raster |-> [r EXCEPT !.ops = Append(@, "contrast")]]

\* The if/elif chain of process_image; any other mode leaves the raster alone.
Enhancer(r, mode) ==
    IF mode = "Grayscale" THEN cvtColorBGR2GRAY(r)
    ELSE IF mode = "Scan" THEN apply_adaptive_threshold(r)
    ELSE IF mode = "High Contrast" THEN ContrastRaster(r)
    ELSE [ok |-> TRUE, raster |-> r]

Modes == {"Original", "Grayscale", "Scan", "High Contrast"}

(***************************************************************************)
(* find_document_contour                                                   *)
(***************************************************************************)
CannyThresholds == << <<30, 100>>, <<50, 150>>, <<75, 200>> >>

\* scale = 1000.0 / h when h > 1000, else 1.0; as a reduced fraction n/d.
Scale(h) ==
    IF h > MaxDim
    THEN LET g == GCD(MaxDim, h) IN [n |-> MaxDim \div g, d |-> h \div g]
    ELSE [n |-> 1, d |-> 1]

\* Twice cv2.contourArea of a polygon (shoelace formula, absolute value).
RECURSIVE ShoelaceSum(_, _)
ShoelaceSum(poly, i) ==
    IF i > Len(poly) THEN 0
    ELSE LET a == poly[i]
             b == poly[IF i = Len(poly) THEN 1 ELSE i + 1]
         IN  (a[1] * b[2] - b[1] * a[2]) + ShoelaceSum(poly, i + 1)

PolyArea2(poly) == Abs(ShoelaceSum(poly, 1))

\* A slip that compares against min_area without the scale ** 2 factor.
AreaLargeEnoughNoScale(area2, img) ==
    area2 * MinAreaDen >= 2 * img.h * img.w

\* contour_area >= min_area * (scale ** 2), with min_area = h * w * 0.2.
AreaLargeEnough(area2, img) ==
    LET sc == Scale(img.h)
    IN  area2 * MinAreaDen * sc.d * sc.d >= 2 * img.h * img.w * sc.n * sc.n

\* The two tests of the inner loop on one contour.
Accepts(img, c) ==
    /\ Len(c.approx) = 4
    /\ AreaLargeEnough(PolyArea2(c.approx), img)

\* Insert c into a list sorted by descending raw area, after its equals
\* (sorted(..., reverse=True) is stable).
RECURSIVE InsertDesc(_, _)
InsertDesc(c, s) ==
    IF s = <<>> THEN <<c>>
    ELSE IF Head(s).area2 >= c.area2 THEN <<Head(s)>> \o InsertDesc(c, Tail(s))
    ELSE <<c>> \o s

RECURSIVE SortDesc(_)
SortDesc(s) ==
    IF s = <<>> THEN <<>>
    ELSE InsertDesc(s[Len(s)], SortDesc(SubSeq(s, 1, Len(s) - 1)))

\* sorted(cnts, key=cv2.contourArea, reverse=True)[:10]
TopContours(raw) ==
    LET sorted == SortDesc(raw)
    IN  SubSeq(sorted, 1, IF Len(sorted) < TopN THEN Len(sorted) ELSE TopN)

\* The inner for loop: the approximation of the first accepted contour, or
\* <<>> when the loop ends without a return.
RECURSIVE FirstAccepted(_, _)
FirstAccepted(img, cs) ==
    IF cs = <<>> THEN <<>>
    ELSE IF Accepts(img, Head(cs)) THEN Head(cs).approx
    ELSE FirstAccepted(img, Tail(cs))

\* approx.reshape(4, 2) / scale
Rescale(poly, sc) ==
    [i \in DOMAIN poly |-> << (poly[i][1] * sc.d) \div sc.n,
                              (poly[i][2] * sc.d) \div sc.n >>]

(***************************************************************************)
(* Inputs of the pipeline run.  The sizes are chosen so that 1000.0/h and  *)
(* h*w*0.2 are exact in floating point and the rescaled coordinates are    *)
(* integers.                                                               *)
(***************************************************************************)
Raster(w, h, ch) == [w |-> w, h |-> h, ch |-> ch, ops |-> <<>>]

Images == { Raster(10, 20, 3), Raster(10, 20, 1), Raster(20, 2000, 3) }

\* int(h * scale): the height of the raster the contours are found in.
ProcHeight(img) == (img.h * Scale(img.h).n) \div Scale(img.h).d

\* Contours in a 10 x 20 frame, each the polygon cv2.approxPolyDP reduces it
\* to and what the raw outline's doubled area lacks against that polygon:
\* 19%, 20% and 21% rectangles, a 20% rectangle whose ragged outline encloses
\* only 18.5%, a tall diamond (36%) and a five-sided outline (76.5%).
BaseContours ==
    { [poly |-> << <<0, 0>>, <<2, 0>>, <<2, 19>>, <<0, 19>> >>, loss |-> 0],
      [poly |-> << <<0, 0>>, <<4, 0>>, <<4, 10>>, <<0, 10>> >>, loss |-> 0],
      [poly |-> << <<0, 0>>, <<3, 0>>, <<3, 14>>, <<0, 14>> >>, loss |-> 0],
      [poly |-> << <<1, 0>>, <<5, 0>>, <<5, 10>>, <<1, 10>> >>, loss |-> 6],
      [poly |-> << <<4, 0>>, <<8, 9>>, <<4, 18>>, <<0, 9>> >>, loss |-> 0],
      [poly |-> << <<0, 0>>, <<9, 0>>, <<9, 15>>, <<5, 19>>, <<0, 15>> >>,
       loss |-> 0] }

FillerContour ==
    [poly |-> << <<0, 0>>, <<9, 0>>, <<9, 16>>, <<5, 19>>, <<0, 16>> >>, loss |-> 0]

StretchY(poly, k) == [i \in DOMAIN poly |-> <<poly[i][1], poly[i][2] * k>>]

\* The contour as the loop sees it: area2 is twice cv2.contourArea(c), the
\* sort key; approx is cv2.approxPolyDP(c, 0.02 * peri, True).
ContourOf(b, k) ==
    [area2 |-> PolyArea2(StretchY(b.poly, k)) - b.loss * k,
     approx |-> StretchY(b.poly, k)]

\* The contours cv2.findContours may hand back for this image.
Kinds(img) == { ContourOf(b, ProcHeight(img) \div 20) : b \in BaseContours }

Filler(img) == ContourOf(FillerContour, ProcHeight(img) \div 20)

TailSeqs(img) == UNION { [1..n -> Kinds(img)] : n \in 0..MaxTail }

\* What cv2.findContours returns in one pass: a few contours, or at most one
\* of them followed by a block of FillN large five-sided outlines.
RawLists(img) ==
    TailSeqs(img) \cup
    { t \o [i \in 1..FillN |-> Filler(img)] :
        t \in { <<>> } \cup { <<c>> : c \in Kinds(img) } }

(***************************************************************************)
(* process_image, step by step                                             *)
(***************************************************************************)
GeomIdle ==
    /\ g_pts = <<>>
    /\ g_rect = <<>>
    /\ g_warp = NoWarp
    /\ g_pc = "idle"

PipeIdle ==
    /\ image = Raster(0, 0, 0)
    /\ use_perspective = FALSE
    /\ enhance_mode = "Original"
    /\ pc = "idle"
    /\ passLog = <<>>
    /\ rawCnts = <<>>
    /\ cnts = <<>>
    /\ contour = <<>>
    /\ located = FALSE
    /\ rectified = NoWarp
    /\ output = Raster(0, 0, 0)
    /\ error = "none"

Init ==
    /\ image \in Images
    /\ use_perspective \in BOOLEAN
    /\ enhance_mode \in Modes
    /\ pc = "start"
    /\ passLog = <<>>
    /\ rawCnts = <<>>
    /\ cnts = <<>>
    /\ contour = <<>>
    /\ located = FALSE
    /\ rectified = NoWarp
    /\ output = Raster(0, 0, 0)
    /\ error = "none"
    /\ GeomIdle
    /\ pixHist = <<>>

\* A slip that runs the Locator whatever use_perspective says.
BeginAlways ==
    /\ pc = "start"
    /\ output' = image
    /\ pc' = "locate"
    /\ UNCHANGED <<image, use_perspective, enhance_mode, passLog, rawCnts, cnts,
                   contour, located, rectified, error, geomVars, pixHist>>

\* output = image.copy(); if use_perspective: ...
Begin ==
    /\ pc = "start"
    /\ output' = image
    /\ pc' = IF use_perspective THEN "locate" ELSE "enhance"
    /\ UNCHANGED <<image, use_perspective, enhance_mode, passLog, rawCnts, cnts,
                   contour, located, rectified, error, geomVars, pixHist>>

\* find_document_contour up to the loop: resize, cvtColor, GaussianBlur.
LocatePrepare ==
    /\ pc = "locate"
    /\ IF cvtColorBGR2GRAY(image).ok
       THEN pc' = "pass" /\ error' = error
       ELSE pc' = "raised" /\ error' = "cv2.error"
    /\ UNCHANGED <<image, use_perspective, enhance_mode, passLog, rawCnts, cnts,
                   contour, located, rectified, output, geomVars, pixHist>>

\* A slip that goes on to the next threshold pair after a hit.
CannyPassNoReturn ==
    /\ pc = "pass"
    /\ Len(passLog) < Len(CannyThresholds)
    /\ \E raw \in RawLists(image) :
         LET th  == CannyThresholds[Len(passLog) + 1]
             top == TopContours(raw)
             hit == FirstAccepted(image, top)
             log == Append(passLog, [low |-> th[1], high |-> th[2],
                                     found |-> hit # <<>>])
         IN  /\ rawCnts' = raw
             /\ cnts' = top
             /\ passLog' = log
             /\ IF Len(log) = Len(CannyThresholds)
                THEN /\ contour' = IF hit # <<>>
                                   THEN Rescale(hit, Scale(image.h)) ELSE <<>>
                     /\ located' = TRUE
                     /\ pc' = IF hit # <<>> THEN "rectify" ELSE "enhance"
                ELSE /\ pc' = "pass"
                     /\ UNCHANGED <<contour, located>>
    /\ UNCHANGED <<image, use_perspective, enhance_mode, rectified, output, error,
                   geomVars, pixHist>>

\* One iteration of the loop over the threshold pairs: Canny, dilate,
\* findContours (its result is the input drawn here), sort, truncate, inspect.
CannyPass ==
    /\ pc = "pass"
    /\ Len(passLog) < Len(CannyThresholds)
    /\ \E raw \in RawLists(image) :
         LET th  == CannyThresholds[Len(passLog) + 1]
             top == TopContours(raw)
             hit == FirstAccepted(image, top)
             log == Append(passLog, [low |-> th[1], high |-> th[2],
                                     found |-> hit # <<>>])
         IN  /\ rawCnts' = raw
             /\ cnts' = top
             /\ passLog' = log
             /\ IF hit # <<>>
                THEN /\ contour' = Rescale(hit, Scale(image.h))
                     /\ located' = TRUE
                     /\ pc' = "rectify"
                ELSE IF Len(log) = Len(CannyThresholds)
                THEN /\ contour' = <<>>
                     /\ located' = TRUE
                     /\ pc' = "enhance"
                ELSE /\ pc' = "pass"
                     /\ UNCHANGED <<contour, located>>
    /\ UNCHANGED <<image, use_perspective, enhance_mode, rectified, output, error,
                   geomVars, pixHist>>

\* if contour is not None: output = four_point_transform(image, contour)
Rectify ==
    /\ pc = "rectify"
    /\ rectified' = four_point_transform(image, contour)
    /\ output' = rectified'.warped
    /\ pc' = "enhance"
    /\ UNCHANGED <<image, use_perspective, enhance_mode, passLog, rawCnts, cnts,
                   contour, located, error, geomVars, pixHist>>

\* The enhancement dispatch and the return.
Enhance ==
    /\ pc = "enhance"
    /\ LET r == Enhancer(output, enhance_mode)
       IN  IF r.ok
           THEN output' = r.raster /\ pc' = "done" /\ error' = error
           ELSE output' = output /\ pc' = "raised" /\ error' = "cv2.error"
    /\ UNCHANGED <<image, use_perspective, enhance_mode, passLog, rawCnts, cnts,
                   contour, located, rectified, geomVars, pixHist>>

Next ==
    \/ Begin
    \/ LocatePrepare
    \/ CannyPass
    \/ Rectify
    \/ Enhance

Spec == Init /\ [][Next]_vars

(***************************************************************************)
(* order_points and four_point_transform called on any 4 grid points       *)
(***************************************************************************)
GridPts == (0..GridMax) \X (0..GridMax)

GeomImage == Raster(GridMax + 1, GridMax + 1, 3)

InitRectify ==
    /\ PipeIdle
    /\ g_pts \in [1..4 -> GridPts]
    /\ g_rect = <<>>
    /\ g_warp = NoWarp
    /\ g_pc = "input"
    /\ pixHist = <<>>

CallOrderPoints ==
    /\ g_pc = "input"
    /\ g_rect' = order_points(g_pts)
    /\ g_pc' = "ordered"
    /\ UNCHANGED <<pipeVars, g_pts, g_warp, pixHist>>

CallFourPointTransform ==
    /\ g_pc = "input"
    /\ g_warp' = four_point_transform(GeomImage, g_pts)
    /\ g_rect' = g_warp'.rect
    /\ g_pc' = "warped"
    /\ UNCHANGED <<pipeVars, g_pts, pixHist>>

NextRectify ==
    \/ CallOrderPoints
    \/ CallFourPointTransform

SpecRectify == InitRectify /\ [][NextRectify]_vars

(***************************************************************************)
(* increase_contrast(alpha=2.0, beta=-50) re-applied to one channel value  *)
(***************************************************************************)
InitContrast ==
    /\ PipeIdle
    /\ GeomIdle
    /\ pixHist \in { <<v>> : v \in 0..PixelMax }

ApplyHighContrast ==
    /\ Len(pixHist) >= 1
    /\ Len(pixHist) <= MaxApply
    /\ pixHist' = Append(pixHist, HighContrast(pixHist[Len(pixHist)]))
    /\ UNCHANGED <<pipeVars, geomVars>>

NextContrast == ApplyHighContrast

SpecContrast == InitContrast /\ [][NextContrast]_vars

(***************************************************************************)
(* Properties                                                              *)
(***************************************************************************)
Finished == pc \in {"done", "raised"}

\* What process_image hands back: a raster, or an exception.
Outcome == [ok |-> pc = "done", raster |-> output]

\* C1: process_image enhances the Rectifier's output only when
\* use_perspective is set and the Locator returned a quadrilateral; with
\* use_perspective off (Locator and Rectifier never run) or on NotFound the
\* outcome is exactly the Enhancer applied to the untouched input, and
\* NotFound never leaves process_image as an error.
C1_FallbackIsEnhancedOriginal ==
    /\ (Finished /\ (~use_perspective \/ (located /\ contour = <<>>)))
          => /\ Outcome = Enhancer(image, enhance_mode)
             /\ rectified = NoWarp
    /\ ~use_perspective => (passLog = <<>> /\ ~located /\ pc # "locate")
    /\ (located /\ contour = <<>>) => (error = "none" /\ pc # "raised")
    /\ (Finished /\ rectified # NoWarp)
          => /\ use_perspective /\ located /\ contour # <<>>
             /\ pc = "done" => output = Enhancer(rectified.warped, enhance_mode).raster

\* C1 witness: the Locator reported NotFound and Scan mode finished on the
\* original image.
C1_Witness ==
    /\ pc = "done" /\ use_perspective /\ located /\ contour = <<>>
    /\ enhance_mode = "Scan"
    /\ output.ops = <<"gray", "clahe", "bilateral", "threshold">>

\* C2: the Enhancer accepts every raster, 3-channel or 1-channel, in each of
\* the four modes; Grayscale and Scan give one channel, Original and High
\* Contrast keep the input's channel count.
C2_EnhancerAcceptsAllChannels ==
    /\ (Finished /\ ~use_perspective) => pc = "done"
    /\ pc = "done" =>
          output.ch = IF enhance_mode \in {"Grayscale", "Scan"} THEN 1 ELSE image.ch

\* C3: High Contrast maps every channel value v to clamp(2*v - 50, 0, 255).
C3_ClampedLinear ==
    Len(pixHist) >= 2 =>
        LET lin == 2 * pixHist[1] + (-50)
        IN  pixHist[2] = IF lin < 0 THEN 0 ELSE IF lin > 255 THEN 255 ELSE lin

\* C4: four points whose target width or height computes to 0 are rejected
\* with an explicit error; no raster is returned for them.
C4_DegenerateRejected ==
    (g_pc = "warped" /\ (g_warp.maxWidth = 0 \/ g_warp.maxHeight = 0))
        => g_warp.status = "error"

Perms4 == { p \in [1..4 -> 1..4] : \A i, j \in 1..4 : p[i] = p[j] => i = j }

Permuted(pts, p) == [i \in 1..4 |-> pts[p[i]]]

Cross(a, b, c) == (b[1] - a[1]) * (c[2] - b[2]) - (b[2] - a[2]) * (c[1] - b[1])

\* The 4 points, in the order given, are the corners of a strictly convex
\* quadrilateral.
StrictlyConvex(pts) ==
    LET t == [i \in 1..4 |-> Cross(pts[i], pts[(i % 4) + 1], pts[((i + 1) % 4) + 1])]
    IN  (\A i \in 1..4 : t[i] > 0) \/ (\A i \in 1..4 : t[i] < 0)

\* Exactly one of the four points attains each of min(x+y), max(x+y),
\* min(y-x) and max(y-x).
UniqueExtremes(pts) ==
    LET s == [i \in 1..4 |-> pts[i][1] + pts[i][2]]
        d == [i \in 1..4 |-> pts[i][2] - pts[i][1]]
        One(f, best(_, _)) ==
            Cardinality({ i \in 1..4 : \A j \in 1..4 : best(f[i], f[j]) }) = 1
        Le(a, b) == a <= b
        Ge(a, b) == a >= b
    IN  One(s, Le) /\ One(s, Ge) /\ One(d, Le) /\ One(d, Ge)

\* C5 as stated: for any valid quadrilateral all 24 orders of its 4 points
\* get the same top-left/top-right/bottom-right/bottom-left assignment.
C5_PermutationInvariant ==
    (g_rect # <<>> /\ StrictlyConvex(g_pts))
        => \A p \in Perms4 : order_points(Permuted(g_pts, p)) = g_rect

\* C5 amended: when exactly one point attains each of the minimum and maximum
\* of x+y and of y-x, all 24 orders of the 4 points get the same assignment.
C5_InvariantWhenExtremesUnique ==
    (g_rect # <<>> /\ UniqueExtremes(g_pts))
        => \A p \in Perms4 : order_points(Permuted(g_pts, p)) = g_rect

\* C5 witness: a convex quadrilateral with unique extremes, handed in in an
\* order other than the canonical one, has been ordered.
C5_Witness ==
    /\ g_pc = "ordered"
    /\ StrictlyConvex(g_pts) /\ UniqueExtremes(g_pts)
    /\ g_rect # g_pts
    /\ g_rect = << <<0, 0>>, <<2, 0>>, <<2, 1>>, <<0, 1>> >>

CoversFifth(c) ==
    LET sc == Scale(image.h)
    IN  /\ Len(c.approx) = 4
        /\ 100 * PolyArea2(c.approx) * sc.d * sc.d
              >= 20 * 2 * image.h * image.w * sc.n * sc.n

LastPass == passLog[Len(passLog)]

\* C7: within a pass the candidates are inspected by descending area and the
\* first 4-vertex polygon covering at least 20% of the full image is accepted:
\* a returned polygon always has 4 vertices and covers at least 20%, no
\* candidate of larger area qualified, and a pass over at most 10 contours
\* succeeds exactly when one of them qualifies (19% alone: not found, 21%:
\* found).
C7_FirstLargeQuadAccepted ==
    /\ contour # <<>>
          => /\ Len(contour) = 4
             /\ 100 * PolyArea2(contour) >= 20 * 2 * image.h * image.w
             /\ \E i \in DOMAIN rawCnts :
                  /\ Rescale(rawCnts[i].approx, Scale(image.h)) = contour
                  /\ \A j \in DOMAIN rawCnts :
                       rawCnts[j].area2 > rawCnts[i].area2 => ~CoversFifth(rawCnts[j])
    /\ (passLog # <<>> /\ Len(rawCnts) <= 10)
          => (LastPass.found <=> \E i \in DOMAIN rawCnts : CoversFifth(rawCnts[i]))
    /\ \A i \in DOMAIN cnts : i > 1 => cnts[i - 1].area2 >= cnts[i].area2

\* C7 witness: on the downscaled image a pass saw a 19% and a 21% rectangle
\* and returned the 21% one, in full-resolution coordinates.
C7_Witness ==
    /\ image.h = 2000
    /\ located
    /\ contour = << <<0, 0>>, <<6, 0>>, <<6, 1400>>, <<0, 1400>> >>
    /\ \E i \in DOMAIN rawCnts :
         /\ Len(rawCnts[i].approx) = 4
         /\ 100 * PolyArea2(rawCnts[i].approx) * 4 = 19 * 2 * image.h * image.w

\* C8 as stated: High Contrast applied to its own output changes nothing.
C8_Idempotent ==
    \A i \in 2..(Len(pixHist) - 1) : pixHist[i + 1] = pixHist[i]

\* C8 amended: for every channel value v whose first pass saturates at the top
\* (2*v - 50 >= 255), every further pass leaves the value at 255.
C8_StableOnceSaturated ==
    (Len(pixHist) >= 1 /\ 2 * pixHist[1] - 50 >= 255)
        => \A i \in 2..Len(pixHist) : pixHist[i] = 255

\* C8 witness: 200 has been through High Contrast twice.
C8_Witness ==
    /\ Len(pixHist) >= 3
    /\ pixHist[1] = 200
    /\ pixHist[3] = 255

\* C9: the passes run over (30,100), (50,150), (75,200) in that order; the
\* Locator returns at the first pass that finds a quadrilateral, reports
\* NotFound only after all three failed, and never runs more than 3 passes.
C9_PassesInOrderWithEarlyExit ==
    /\ Len(passLog) <= 3
    /\ \A i \in DOMAIN passLog :
         /\ <<passLog[i].low, passLog[i].high>>
               = (<< <<30, 100>>, <<50, 150>>, <<75, 200>> >>)[i]
         /\ passLog[i].found => i = Len(passLog)
    /\ (located /\ contour = <<>>)
          => (Len(passLog) = 3 /\ \A i \in DOMAIN passLog : ~passLog[i].found)
    /\ (located /\ contour # <<>>) => LastPass.found
    /\ (passLog # <<>> /\ LastPass.found) => (located /\ contour # <<>>)
    /\ (pc = "pass" /\ passLog # <<>>) => ~LastPass.found

\* C9 witness: the first pass failed, the second found the document and the
\* pipeline finished without a third.
C9_Witness ==
    /\ pc = "done"
    /\ Len(passLog) = 2
    /\ ~passLog[1].found /\ passLog[2].found
    /\ contour # <<>>

\* C10: for 4 pairwise distinct points the rows order_points returns are a
\* permutation of the input: every input point fills exactly one slot.
C10_RectIsPermutation ==
    (g_rect # <<>> /\ \A i, j \in 1..4 : g_pts[i] = g_pts[j] => i = j)
        => \A i \in 1..4 : Cardinality({ k \in 1..4 : g_rect[k] = g_pts[i] }) = 1

====
